---- MODULE Spec2Model ----
(***************************************************************************)
(* Model of the streaming filter pipeline of hsh_signal/filter.py.         *)
(*                                                                         *)
(* One chain  driver -> block -> DataSink  is built per behaviour.  The    *)
(* block is one of Delay, FIRFilter, Hilbert, Downsampler, RegroupBatches  *)
(* or MixLocalOscillator.  The driver is either a caller that puts         *)
(* batches of arbitrary lengths into the block ("caller"), a               *)
(* ChunkDataSource polled until finished ("chain"), or apply_filter        *)
(* ("apply_filter": pad, ChunkDataSource, DataSink, trim).                 *)
(*                                                                         *)
(* Samples are integers: the arithmetic of the model is exact, where the   *)
(* program computes in floating point.  Time of the local oscillator is    *)
(* counted in whole sample periods (1/fps), with f0 = fps/4 so that the    *)
(* carrier takes the exact values 0, 1, 0, -1.  The chunk size of          *)
(* apply_filter (179200 in the source) is the parameter batch_size of the  *)
(* ChunkDataSource, drawn from 1..MaxChunk.                                *)
(***************************************************************************)
EXTENDS Integers, Sequences, FiniteSets, TLC

\* ---------------------------------------------------------------- bounds
MaxLen    == 4   \* longest input stream / signal
MaxTaps   == 3   \* largest tap count of a FIRFilter or HilbertImag
MaxDelay  == 2   \* largest Delay.delay
MaxRatio  == 3   \* largest Downsampler.ratio
MaxChunk  == 3   \* largest batch_size / out_batch_size
MaxEmpty  == 1   \* empty batches a caller may put in one run
MaxConsumers == 2   \* most consumers connected to a Splitter

\* ------------------------------------------------------ program constants
MODE_CONVOLVE     == 1
MODE_FFT_CONVOLVE == 2

VARIABLES
    kind,            \* class of the block under the driver
    driver,          \* "caller" | "chain" | "apply_filter"
    signal,          \* apply_filter: the signal argument
    data,            \* the input stream (ChunkDataSource._data)
    batch_size,      \* ChunkDataSource._batch_size
    src_i,           \* ChunkDataSource._i
    taps,            \* FIRFilter._taps
    buffer_x,        \* FIRFilter._buffer_x
    mode,            \* FIRFilter.mode
    delay,           \* Delay.delay
    buffer,          \* Delay._buffer
    ratio,           \* Downsampler.ratio
    waitfor,         \* Downsampler.waitfor
    out_batch_size,  \* RegroupBatches.out_batch_size
    t,               \* MixLocalOscillator.t, in sample periods
    sink,            \* DataSink.data
    pc,              \* position in the synchronous call chain
    x,               \* the batch handed to the block by the current put
    s,               \* RegroupBatches.put: the loop variable s
    out,             \* the batch handed to the sink
    consumer,        \* FilterBlock._consumer of the block: "DataSink" or "None"
    consumers,       \* Splitter._consumers: the connected DataSinks, by number
    sinks,           \* DataSink.data of each consumer of the Splitter
    ci,              \* Splitter.put: consumers the loop has served
    err,             \* exception raised, "none" if none
    caught,          \* exception the caller caught from Hilbert.add / Hilbert.get
    result,          \* apply_filter: the returned array
    fed,             \* history: number of samples submitted so far
    recv,            \* history: what the sink received during the current put
    nBatch,          \* history: batches the block handed on during the current put
    nSink,           \* history: DataSink.put calls completed during the current put
    nEmpty,          \* history: empty batches submitted
    wf0,             \* history: Downsampler.waitfor before the current batch
    puts,            \* history: the batches put into the Splitter
    deliv,           \* history: << consumer, batch >> of every delivery of the Splitter
    polls            \* history: the batches ChunkDataSource.poll has put

vars == << kind, driver, signal, data, batch_size, src_i, taps, buffer_x, mode,
           delay, buffer, ratio, waitfor, out_batch_size, t, consumer, sink, pc, x, s,
           out, err, caught, result, fed, recv, nBatch, nSink, nEmpty, wf0,
           consumers, sinks, ci, puts, deliv, polls >>

\* ------------------------------------------------------- numpy / python
Min(a, b) == IF a < b THEN a ELSE b
Max(a, b) == IF a > b THEN a ELSE b

zeros(n) == [k \in 1..n |-> 0]

\* a slice bound k of a sequence of length n, as python normalises it
PyIndex(k, n) == IF k < 0 THEN Max(k + n, 0) ELSE Min(k, n)

\* q[a:b], q[a:], q[:b]
Slice(q, a, b) == SubSeq(q, PyIndex(a, Len(q)) + 1, PyIndex(b, Len(q)))
SliceFrom(q, a) == SubSeq(q, PyIndex(a, Len(q)) + 1, Len(q))
SliceTo(q, b) == SubSeq(q, 1, PyIndex(b, Len(q)))

\* np.arange(0, stop, step): the number of elements, ceil(stop / step)
ArangeLen(stop, step) == IF stop <= 0 THEN 0 ELSE (stop + step - 1) \div step

RECURSIVE DotRev(_, _, _, _)
\* sum over k = 1..n of short[k] * long[p + n - k]
DotRev(short, long, p, k) ==
    IF k = 0 THEN 0
    ELSE short[k] * long[p + Len(short) - k] + DotRev(short, long, p, k - 1)

\* np.convolve(a, v, mode='valid') of two non-empty arrays: numpy swaps the
\* arguments when v is the longer one and returns max - min + 1 samples
NpConvolveValid(a, v) ==
    LET long  == IF Len(v) > Len(a) THEN v ELSE a
        short == IF Len(v) > Len(a) THEN a ELSE v
    IN  [p \in 1..(Len(long) - Len(short) + 1) |-> DotRev(short, long, p, Len(short))]

\* np.convolve raises ValueError when either array is empty
NpConvolveFails(a, v) == Len(a) = 0 \/ Len(v) = 0

\* filter_fft_ff(sig, taps) of hsh_signal/signal.py: the frequency-domain
\* equivalent of the 'valid' convolution
filter_fft_ff(sig, tp) == NpConvolveValid(sig, tp)

\* sin(2*pi*f0*t) at t = n sample periods, for f0 = fps/4
Carrier(n) == CASE n % 4 = 1 -> 1 [] n % 4 = 3 -> -1 [] OTHER -> 0

\* ------------------------------------------------------------- the blocks
\* mutant: one sample too few is kept in the buffer
Delay_batch_short_buffer(buf, d, xx) ==
    LET b1 == buf \o xx
    IN  [y |-> SliceTo(b1, -d), buffer |-> SliceFrom(b1, -d + 1)]

\* Delay.batch: append, emit all but the trailing delay samples, keep those
Delay_batch(buf, d, xx) ==
    LET b1 == buf \o xx
    IN  [y |-> SliceTo(b1, -d), buffer |-> SliceFrom(b1, -d)]

\* FIRFilter.delay (the property): _ntaps_front = _ntaps // 2
FIRFilter_delay(tp) == Len(tp) \div 2

\* mutant: the whole window of _ntaps samples is kept
FIRFilter_trim_keeps_ntaps(b1, tp) == SliceFrom(b1, -Len(tp))

\* the slice that trims FIRFilter._buffer_x: _buffer_x[-_ntaps+1:]
FIRFilter_trim(b1, tp) == SliceFrom(b1, -Len(tp) + 1)

\* mutant: an unsupported mode falls back to the FFT convolution
FIRFilter_batch_fallback(buf, tp, md, xx) ==
    LET b1 == buf \o xx
    IN  IF NpConvolveFails(b1, tp)
        THEN [err |-> "ValueError", y |-> << >>, buffer_x |-> b1]
        ELSE [err |-> "none", y |-> NpConvolveValid(b1, tp),
              buffer_x |-> FIRFilter_trim(b1, tp)]

\* FIRFilter.batch: the buffer is extended first, then the convolution runs
\* (or raises), then the buffer is trimmed
FIRFilter_batch(buf, tp, md, xx) ==
    LET b1 == buf \o xx
    IN  IF md = MODE_CONVOLVE
        THEN IF NpConvolveFails(b1, tp)
             THEN [err |-> "ValueError", y |-> << >>, buffer_x |-> b1]
             ELSE [err |-> "none", y |-> NpConvolveValid(b1, tp),
                   buffer_x |-> FIRFilter_trim(b1, tp)]
        ELSE IF md = MODE_FFT_CONVOLVE
        THEN IF NpConvolveFails(b1, tp)
             THEN [err |-> "ValueError", y |-> << >>, buffer_x |-> b1]
             ELSE [err |-> "none", y |-> filter_fft_ff(b1, tp),
                   buffer_x |-> FIRFilter_trim(b1, tp)]
        ELSE [err |-> "ValueError", y |-> << >>, buffer_x |-> b1]

\* HilbertImag.__init__: the tap count is made odd
HilbertImag_ntaps(ntaps) == ntaps + (1 - (ntaps % 2))

\* real + imag * 1j under numpy broadcasting; a complex sample is <<re, im>>
NpAddFails(re, im) == Len(re) # Len(im) /\ Len(re) # 1 /\ Len(im) # 1
NpAddComplex(re, im) ==
    LET n == IF Len(re) = Len(im) THEN Len(re)
             ELSE IF Len(re) = 1 THEN Len(im) ELSE Len(re)
    IN  [k \in 1..n |-> << IF Len(re) = n THEN re[k] ELSE re[1],
                           IF Len(im) = n THEN im[k] ELSE im[1] >>]

\* Hilbert.batch: the delay line, then the FIR filter, then the sum
Hilbert_batch(buf, d, bufx, tp, md, xx) ==
    LET re == Delay_batch(buf, d, xx)
        im == FIRFilter_batch(bufx, tp, md, xx)
    IN  IF im.err # "none"
        THEN [err |-> im.err, y |-> << >>, buffer |-> re.buffer, buffer_x |-> im.buffer_x]
        ELSE IF NpAddFails(re.y, im.y)
        THEN [err |-> "ValueError", y |-> << >>, buffer |-> re.buffer, buffer_x |-> im.buffer_x]
        ELSE [err |-> "none", y |-> NpAddComplex(re.y, im.y),
              buffer |-> re.buffer, buffer_x |-> im.buffer_x]

\* mutant: the batch length is not reduced modulo the ratio
Downsampler_next_waitfor_unwrapped(r, w, L) == r - L

\* the new Downsampler.waitfor after a batch of length L > waitfor:
\* self.waitfor = self.ratio - len(x) % self.ratio
Downsampler_next_waitfor(r, w, L) == r - (L % r)

\* mutant: a batch of exactly waitfor samples is not skipped
Downsampler_batch_strict(r, w, xx) ==
    IF Len(xx) < w
    THEN [y |-> << >>, waitfor |-> w - Len(xx)]
    ELSE [y |-> [k \in 1..ArangeLen(Len(xx) - w, r) |-> xx[w + (k - 1) * r + 1]],
          waitfor |-> Downsampler_next_waitfor(r, w, Len(xx))]

\* Downsampler.batch
Downsampler_batch(r, w, xx) ==
    IF Len(xx) <= w
    THEN [y |-> << >>, waitfor |-> w - Len(xx)]
    ELSE [y |-> [k \in 1..ArangeLen(Len(xx) - w, r) |-> xx[w + (k - 1) * r + 1]],
          waitfor |-> Downsampler_next_waitfor(r, w, Len(xx))]

\* mutant: the slice ends one sample early
RegroupBatches_chunk_short(xx, ss, size) == Slice(xx, ss, ss + size - 1)

\* mutant: the slice ends one sample late
RegroupBatches_chunk_long(xx, ss, size) == Slice(xx, ss, ss + size + 1)

\* the chunk RegroupBatches.put forwards at loop value ss: x[s:s+out_batch_size]
RegroupBatches_chunk(xx, ss, size) == Slice(xx, ss, ss + size)

\* mutant: t is left at the last time value used
MixLocalOscillator_batch_stale(t0, xx) ==
    LET tv == [k \in 1..Len(xx) |-> t0 + (k - 1)]
    IN  IF Len(xx) = 0
        THEN [err |-> "IndexError", y |-> << >>, t |-> t0]
        ELSE [err |-> "none", y |-> [k \in 1..Len(xx) |-> xx[k] * Carrier(tv[k])],
              t |-> tv[Len(xx)]]

\* MixLocalOscillator.batch, time in sample periods: t = self.t + arange(L),
\* self.t = t[-1] + 1; t[-1] raises IndexError on an empty batch
MixLocalOscillator_batch(t0, xx) ==
    LET tv == [k \in 1..Len(xx) |-> t0 + (k - 1)]
    IN  IF Len(xx) = 0
        THEN [err |-> "IndexError", y |-> << >>, t |-> t0]
        ELSE [err |-> "none", y |-> [k \in 1..Len(xx) |-> xx[k] * Carrier(tv[k])],
              t |-> tv[Len(xx)] + 1]

\* mutant: the source counts as finished only once _i is past the end
ChunkDataSource_finished_late == src_i > Len(data)

\* ChunkDataSource.finished
ChunkDataSource_finished == src_i >= Len(data)

\* mutant: the slice runs one sample into the next batch
ChunkDataSource_chunk_overlap(d, i, b) == Slice(d, i, i + b + 1)

\* the batch ChunkDataSource.poll puts: _data[_i:_i+_batch_size]
ChunkDataSource_chunk(d, i, b) == Slice(d, i, i + b)

\* the read position after ChunkDataSource.poll
ChunkDataSource_advance(i, b) == i + b

\* ChunkDataSource.progress: float(_i) / len(_data) * 100.0, as the fraction
\* num / den (len(_data) = 0 divides by zero)
ChunkDataSource_progress(i, d) == [num |-> i * 100, den |-> Len(d)]

\* DataSink.put: np.concatenate([self.data, x])
DataSink_put(d, xx) == d \o xx

\* mutant: the signal is not padded
apply_filter_pad_none(sig, d) == sig

\* apply_filter: np.pad(signal, (0, filter.delay)) and sink.data[filter.delay:]
apply_filter_pad(sig, d) == sig \o zeros(d)
apply_filter_trim(sd, d) == SliceFrom(sd, d)

\* ------------------------------------------------------------ construction
SampleValues == {0, 1}
TapValues == {1, 2}
Streams == UNION { [1..n -> SampleValues] : n \in 0..MaxLen }
TapVectors(n) == [1..n -> TapValues]
\* the two supported modes and one unsupported value
Modes == {MODE_CONVOLVE, MODE_FFT_CONVOLVE, 0}

Kinds == {"Delay", "FIRFilter", "Hilbert", "Downsampler", "RegroupBatches",
          "MixLocalOscillator", "Splitter", "Downsampler>MixLocalOscillator"}

\* the fields a block's constructor sets; the others keep a default
NoBlock == [kind |-> "none", taps |-> << >>, mode |-> MODE_FFT_CONVOLVE,
            delay |-> 0, ratio |-> 1, out_batch_size |-> 1]

\* Delay.__init__(delay)
Delay_init(d) == [NoBlock EXCEPT !.kind = "Delay", !.delay = d]

\* FIRFilter.__init__(taps, sampling_rate), then the caller's choice of mode
FIRFilter_init(tp, md) == [NoBlock EXCEPT !.kind = "FIRFilter", !.taps = tp, !.mode = md]

\* mutant: the delay line is one sample longer than the filter's delay
Hilbert_init_late(tp, md) ==
    [NoBlock EXCEPT !.kind = "Hilbert", !.taps = tp, !.mode = md,
                    !.delay = FIRFilter_delay(tp) + 1]

\* Hilbert.__init__(ntaps): filter_imag = HilbertImag(ntaps), whose taps tp
\* come from gr_firdes, and filter_real = Delay(filter_imag.delay)
Hilbert_init(tp, md) ==
    [NoBlock EXCEPT !.kind = "Hilbert", !.taps = tp, !.mode = md,
                    !.delay = FIRFilter_delay(tp)]

\* Downsampler.__init__(ratio)
Downsampler_init(r) == [NoBlock EXCEPT !.kind = "Downsampler", !.ratio = r]

\* RegroupBatches.__init__(out_batch_size)
RegroupBatches_init(n) == [NoBlock EXCEPT !.kind = "RegroupBatches", !.out_batch_size = n]

\* MixLocalOscillator.__init__(fps, f0)
MixLocalOscillator_init == [NoBlock EXCEPT !.kind = "MixLocalOscillator"]

\* connect(source, Downsampler(ratio), MixLocalOscillator(fps, f0), sink)
DownsamplerMixer_init(r) ==
    [NoBlock EXCEPT !.kind = "Downsampler>MixLocalOscillator", !.ratio = r]

\* Splitter.__init__()
Splitter_init == [NoBlock EXCEPT !.kind = "Splitter"]

\* Splitter.connect(consumer)
Splitter_connect(cs, c) == Append(cs, c)

\* n DataSinks connected to a new Splitter one after the other
RECURSIVE Splitter_wired(_)
Splitter_wired(n) == IF n = 0 THEN << >> ELSE Splitter_connect(Splitter_wired(n - 1), n)

Blocks ==
    { Delay_init(d) : d \in 0..MaxDelay }
    \cup { FIRFilter_init(tp, md) :
             tp \in UNION { TapVectors(n) : n \in 1..MaxTaps }, md \in Modes }
    \cup { Hilbert_init(tp, md) :
             tp \in UNION { TapVectors(HilbertImag_ntaps(n)) : n \in 0..(MaxTaps - 1) },
             md \in {MODE_CONVOLVE, MODE_FFT_CONVOLVE} }
    \cup { Downsampler_init(r) : r \in 1..MaxRatio }
    \cup { RegroupBatches_init(n) : n \in 1..MaxChunk }
    \cup { MixLocalOscillator_init }
    \cup { Splitter_init }
    \cup { DownsamplerMixer_init(r) : r \in 1..MaxRatio }

Init ==
    \E blk \in Blocks, st \in Streams, drv \in {"caller", "chain", "apply_filter"},
       b \in 1..MaxChunk, cons \in {"DataSink", "None"}, n \in 0..MaxConsumers :
        /\ blk.kind # "Splitter" => n = 0
        /\ blk.kind = "Splitter" => (cons = "DataSink" /\ drv = "caller")
        /\ blk.kind = "Downsampler>MixLocalOscillator" => cons = "DataSink"
        /\ consumers = Splitter_wired(n)
        /\ sinks = [c \in 1..n |-> << >>]
        /\ ci = 0
        /\ puts = << >>
        /\ deliv = << >>
        /\ polls = << >>
        /\ drv = "caller" => b = 1
        /\ cons = "None" => drv = "caller"
        /\ consumer = cons
        /\ drv = "apply_filter" => blk.kind = "FIRFilter"
        /\ kind = blk.kind
        /\ driver = drv
        /\ signal = IF drv = "apply_filter" THEN st ELSE << >>
        /\ data = IF drv = "apply_filter"
                  THEN apply_filter_pad(st, FIRFilter_delay(blk.taps)) ELSE st
        /\ batch_size = b
        /\ src_i = 0
        /\ taps = blk.taps
        /\ buffer_x = IF blk.kind \in {"FIRFilter", "Hilbert"}
                      THEN zeros(Len(blk.taps) - 1) ELSE << >>
        /\ mode = blk.mode
        /\ delay = blk.delay
        /\ buffer = zeros(blk.delay)
        /\ ratio = blk.ratio
        /\ waitfor = 0
        /\ out_batch_size = blk.out_batch_size
        /\ t = 0
        /\ sink = << >>
        /\ pc = "idle"
        /\ x = << >>
        /\ s = 0
        /\ out = << >>
        /\ err = "none"
        /\ caught = "none"
        /\ result = << >>
        /\ fed = 0
        /\ recv = << >>
        /\ nBatch = 0
        /\ nSink = 0
        /\ nEmpty = 0
        /\ wf0 = 0

\* ----------------------------------------------------------------- actions
config == << kind, driver, signal, data, batch_size, taps, mode, delay, ratio,
             out_batch_size, consumer, consumers >>

\* the state of a Splitter and of its consumers
fanout == << sinks, ci, puts, deliv >>

\* what the blocks of a chain never touch: a Splitter's state, the source's history
aside == << fanout, polls >>

\* a caller puts the next L samples of the stream into the block
CallerPut ==
    \E L \in 0..MaxLen :
        /\ driver = "caller" /\ pc = "idle"
        /\ fed + L <= Len(data)
        /\ L = 0 => nEmpty < MaxEmpty
        /\ x' = Slice(data, fed, fed + L)
        /\ fed' = fed + L
        /\ nEmpty' = IF L = 0 THEN nEmpty + 1 ELSE nEmpty
        /\ recv' = << >>
        /\ puts' = IF kind = "Splitter" THEN Append(puts, x') ELSE puts
        /\ pc' = "put"
        /\ UNCHANGED << config, polls, sinks, ci, deliv, caught, src_i, buffer_x, buffer,
                        waitfor, t,
                        sink, s, out, err, result, nBatch, nSink, wf0 >>

\* ChunkDataSource.poll up to the call of the consumer's put (SourceBlock.batch
\* is the identity); polled while not finished()
ChunkDataSource_poll ==
    /\ driver \in {"chain", "apply_filter"} /\ pc = "idle"
    /\ ~ChunkDataSource_finished
    /\ x' = ChunkDataSource_chunk(data, src_i, batch_size)
    /\ fed' = fed + Len(x')
    /\ recv' = << >>
    /\ polls' = Append(polls, x')
    /\ pc' = "put"
    /\ UNCHANGED << config, fanout, caught, src_i, buffer_x, buffer, waitfor, t, sink, s, out,
                    err, result, nBatch, nSink, nEmpty, wf0 >>

\* mutant: the batch step of a Delay runs before the assertion
FilterBlock_put_assert_late ==
    /\ pc = "put" /\ kind # "Splitter" /\ consumer = "None"
    /\ buffer' = Delay_batch(buffer, delay, x).buffer
    /\ err' = "AssertionError"
    /\ pc' = "raised"
    /\ UNCHANGED << config, aside, caught, src_i, buffer_x, waitfor, t, sink, x, s, out,
                    result, fed, recv, nBatch, nSink, nEmpty, wf0 >>

\* FilterBlock.put and RegroupBatches.put of a block without a consumer:
\* assert(self._consumer is not None) fails before anything else runs
FilterBlock_put_assert ==
    /\ pc = "put" /\ kind # "Splitter" /\ consumer = "None"
    /\ err' = "AssertionError"
    /\ pc' = "raised"
    /\ UNCHANGED << config, aside, caught, src_i, buffer_x, buffer, waitfor, t, sink, x, s, out,
                    result, fed, recv, nBatch, nSink, nEmpty, wf0 >>

\* FilterBlock.put of a Delay: the batch step, its result handed to the sink
Delay_put ==
    /\ pc = "put" /\ kind = "Delay" /\ consumer # "None"
    /\ LET r == Delay_batch(buffer, delay, x)
       IN  /\ buffer' = r.buffer
           /\ out' = r.y
    /\ nBatch' = nBatch + 1
    /\ pc' = "sink"
    /\ UNCHANGED << config, aside, caught, src_i, buffer_x, waitfor, t, sink, x, s, err, result,
                    fed, recv, nSink, nEmpty, wf0 >>

\* FilterBlock.put of a FIRFilter
FIRFilter_put ==
    /\ pc = "put" /\ kind = "FIRFilter" /\ consumer # "None"
    /\ LET r == FIRFilter_batch(buffer_x, taps, mode, x)
       IN  /\ buffer_x' = r.buffer_x
           /\ out' = r.y
           /\ err' = r.err
           /\ pc' = IF r.err = "none" THEN "sink" ELSE "raised"
           /\ nBatch' = IF r.err = "none" THEN nBatch + 1 ELSE nBatch
    /\ UNCHANGED << config, aside, caught, src_i, buffer, waitfor, t, sink, x, s, result,
                    fed, recv, nSink, nEmpty, wf0 >>

\* FilterBlock.put of a Hilbert
Hilbert_put ==
    /\ pc = "put" /\ kind = "Hilbert" /\ consumer # "None"
    /\ LET r == Hilbert_batch(buffer, delay, buffer_x, taps, mode, x)
       IN  /\ buffer' = r.buffer
           /\ buffer_x' = r.buffer_x
           /\ out' = r.y
           /\ err' = r.err
           /\ pc' = IF r.err = "none" THEN "sink" ELSE "raised"
           /\ nBatch' = IF r.err = "none" THEN nBatch + 1 ELSE nBatch
    /\ UNCHANGED << config, aside, caught, src_i, waitfor, t, sink, x, s, result,
                    fed, recv, nSink, nEmpty, wf0 >>

\* mutant: add still pushes the sample through the delay line before raising
Hilbert_add_buffers ==
    \E sample \in SampleValues :
        /\ kind = "Hilbert" /\ driver = "caller" /\ pc = "idle"
        /\ caught' = "RuntimeError"
        /\ buffer' = Delay_batch(buffer, delay, << sample >>).buffer
        /\ UNCHANGED << config, aside, src_i, buffer_x, waitfor, t, sink, pc, x, s, out,
                        err, result, fed, recv, nBatch, nSink, nEmpty, wf0 >>

\* Hilbert.add(sample): raise RuntimeError('not implemented anymore'); the
\* caller catches it
Hilbert_add ==
    \E sample \in SampleValues :
        /\ kind = "Hilbert" /\ driver = "caller" /\ pc = "idle"
        /\ caught' = "RuntimeError"
        /\ UNCHANGED << config, aside, src_i, buffer_x, buffer, waitfor, t, sink, pc, x, s,
                        out, err, result, fed, recv, nBatch, nSink, nEmpty, wf0 >>

\* Hilbert.get(): raise RuntimeError('not implemented anymore'); the caller
\* catches it
Hilbert_get ==
    /\ kind = "Hilbert" /\ driver = "caller" /\ pc = "idle"
    /\ caught' = "RuntimeError"
    /\ UNCHANGED << config, aside, src_i, buffer_x, buffer, waitfor, t, sink, pc, x, s,
                    out, err, result, fed, recv, nBatch, nSink, nEmpty, wf0 >>

\* FilterBlock.put of a Downsampler
Downsampler_put ==
    /\ pc = "put" /\ kind = "Downsampler" /\ consumer # "None"
    /\ LET r == Downsampler_batch(ratio, waitfor, x)
       IN  /\ waitfor' = r.waitfor
           /\ out' = r.y
    /\ wf0' = waitfor
    /\ nBatch' = nBatch + 1
    /\ pc' = "sink"
    /\ UNCHANGED << config, aside, caught, src_i, buffer_x, buffer, t, sink, x, s, err, result,
                    fed, recv, nSink, nEmpty >>

\* FilterBlock.put of a MixLocalOscillator
MixLocalOscillator_put ==
    /\ pc = "put" /\ kind = "MixLocalOscillator" /\ consumer # "None"
    /\ LET r == MixLocalOscillator_batch(t, x)
       IN  /\ t' = r.t
           /\ out' = r.y
           /\ err' = r.err
           /\ pc' = IF r.err = "none" THEN "sink" ELSE "raised"
           /\ nBatch' = IF r.err = "none" THEN nBatch + 1 ELSE nBatch
    /\ UNCHANGED << config, aside, caught, src_i, buffer_x, buffer, waitfor, sink, x, s, result,
                    fed, recv, nSink, nEmpty, wf0 >>

\* FilterBlock.put of a Downsampler whose consumer is a MixLocalOscillator
Downsampler_put_mixer ==
    /\ pc = "put" /\ kind = "Downsampler>MixLocalOscillator"
    /\ LET r == Downsampler_batch(ratio, waitfor, x)
       IN  /\ waitfor' = r.waitfor
           /\ out' = r.y
    /\ wf0' = waitfor
    /\ pc' = "mix"
    /\ UNCHANGED << config, aside, caught, src_i, buffer_x, buffer, t, sink, x, s, err, result,
                    fed, recv, nBatch, nSink, nEmpty >>

\* FilterBlock.put of the MixLocalOscillator behind a Downsampler: the batch
\* it is handed is what the Downsampler returned
MixLocalOscillator_put_chained ==
    /\ pc = "mix"
    /\ LET r == MixLocalOscillator_batch(t, out)
       IN  /\ t' = r.t
           /\ out' = r.y
           /\ err' = r.err
           /\ pc' = IF r.err = "none" THEN "sink" ELSE "raised"
           /\ nBatch' = IF r.err = "none" THEN nBatch + 1 ELSE nBatch
    /\ UNCHANGED << config, aside, caught, src_i, buffer_x, buffer, waitfor, sink, x, s, result,
                    fed, recv, nSink, nEmpty, wf0 >>

\* RegroupBatches.put: starts = np.arange(0, len(x), out_batch_size)
RegroupBatches_put ==
    /\ pc = "put" /\ kind = "RegroupBatches" /\ consumer # "None"
    /\ s' = 0
    /\ pc' = "regroup"
    /\ UNCHANGED << config, aside, caught, src_i, buffer_x, buffer, waitfor, t, sink, x, out, err,
                    result, fed, recv, nBatch, nSink, nEmpty, wf0 >>

\* one iteration of the loop of RegroupBatches.put: the chunk at s is handed
\* to the consumer
RegroupBatches_forward ==
    /\ pc = "regroup" /\ s < Len(x)
    /\ out' = RegroupBatches_chunk(x, s, out_batch_size)
    /\ s' = s + out_batch_size
    /\ nBatch' = nBatch + 1
    /\ pc' = "sink"
    /\ UNCHANGED << config, aside, caught, src_i, buffer_x, buffer, waitfor, t, sink, x, err,
                    result, fed, recv, nSink, nEmpty, wf0 >>

\* the loop of RegroupBatches.put ends
RegroupBatches_return ==
    /\ pc = "regroup" /\ s >= Len(x)
    /\ pc' = "ret"
    /\ UNCHANGED << config, aside, caught, src_i, buffer_x, buffer, waitfor, t, sink, x, s, out,
                    err, result, fed, recv, nBatch, nSink, nEmpty, wf0 >>

\* DataSink.put, returning into the block that called it
DataSink_put_call ==
    /\ pc = "sink"
    /\ sink' = DataSink_put(sink, out)
    /\ recv' = recv \o out
    /\ nSink' = nSink + 1
    /\ pc' = IF kind = "RegroupBatches" THEN "regroup" ELSE "ret"
    /\ UNCHANGED << config, aside, caught, src_i, buffer_x, buffer, waitfor, t, x, s, out, err,
                    result, fed, nBatch, nEmpty, wf0 >>

\* the block's put returns to the caller
\* mutant: the loop runs through _consumers from the back
Splitter_consumer_reversed(cs, i) == cs[Len(cs) - i]

\* the consumer Splitter.put serves after i others
Splitter_consumer(cs, i) == cs[i + 1]

\* Splitter.put: entering the loop over _consumers
Splitter_put ==
    /\ pc = "put" /\ kind = "Splitter"
    /\ ci' = 0
    /\ pc' = "split"
    /\ UNCHANGED << config, polls, sinks, puts, deliv, caught, src_i, buffer_x, buffer, waitfor, t,
                    sink, x, s, out, err, result, fed, recv, nBatch, nSink, nEmpty, wf0 >>

\* Splitter.put: one turn of the loop, consumer.put(x) of a DataSink
Splitter_forward ==
    /\ pc = "split" /\ ci < Len(consumers)
    /\ LET c == Splitter_consumer(consumers, ci) IN
           /\ sinks' = [sinks EXCEPT ![c] = DataSink_put(@, x)]
           /\ deliv' = Append(deliv, << c, x >>)
    /\ ci' = ci + 1
    /\ UNCHANGED << config, polls, puts, caught, src_i, buffer_x, buffer, waitfor, t, sink, pc, x,
                    s, out, err, result, fed, recv, nBatch, nSink, nEmpty, wf0 >>

\* Splitter.put: the loop is exhausted, put returns
Splitter_return ==
    /\ pc = "split" /\ ci = Len(consumers)
    /\ pc' = "ret"
    /\ UNCHANGED << config, aside, caught, src_i, buffer_x, buffer, waitfor,
                    t, sink, x, s, out, err, result, fed, recv, nBatch, nSink, nEmpty, wf0 >>

CallerReturn ==
    /\ driver = "caller" /\ pc = "ret"
    /\ pc' = "idle"
    /\ x' = << >> /\ out' = << >> /\ recv' = << >> /\ s' = 0 /\ wf0' = 0
    /\ nBatch' = 0 /\ nSink' = 0
    /\ UNCHANGED << config, aside, caught, src_i, buffer_x, buffer, waitfor, t, sink, err,
                    result, fed, nEmpty >>

\* mutant: the read position is advanced before put is called
ChunkDataSource_poll_advances_first ==
    /\ driver \in {"chain", "apply_filter"} /\ pc = "put" /\ src_i < fed
    /\ src_i' = ChunkDataSource_advance(src_i, batch_size)
    /\ UNCHANGED << config, aside, caught, buffer_x, buffer, waitfor, t, sink, err, pc, x, out,
                    recv, s, wf0, nBatch, nSink, result, fed, nEmpty >>

\* ChunkDataSource.poll after put has returned: _i += _batch_size
ChunkDataSource_poll_return ==
    /\ driver \in {"chain", "apply_filter"} /\ pc = "ret"
    /\ src_i' = ChunkDataSource_advance(src_i, batch_size)
    /\ pc' = "idle"
    /\ x' = << >> /\ out' = << >> /\ recv' = << >> /\ s' = 0 /\ wf0' = 0
    /\ nBatch' = 0 /\ nSink' = 0
    /\ UNCHANGED << config, aside, caught, buffer_x, buffer, waitfor, t,
                    sink, err, result, fed, nEmpty >>

\* apply_filter after its loop: return sink.data[filter.delay:]
apply_filter_return ==
    /\ driver = "apply_filter" /\ pc = "idle"
    /\ ChunkDataSource_finished
    /\ result' = apply_filter_trim(sink, FIRFilter_delay(taps))
    /\ pc' = "done"
    /\ UNCHANGED << config, aside, caught, src_i, buffer_x, buffer, waitfor, t, sink, x, s, out,
                    err, fed, recv, nBatch, nSink, nEmpty, wf0 >>

Next ==
    \/ CallerPut
    \/ FilterBlock_put_assert
    \/ ChunkDataSource_poll
    \/ Delay_put
    \/ FIRFilter_put
    \/ Hilbert_put
    \/ Hilbert_add
    \/ Hilbert_get
    \/ Downsampler_put
    \/ MixLocalOscillator_put
    \/ Downsampler_put_mixer
    \/ MixLocalOscillator_put_chained
    \/ RegroupBatches_put
    \/ RegroupBatches_forward
    \/ RegroupBatches_return
    \/ Splitter_put
    \/ Splitter_forward
    \/ Splitter_return
    \/ DataSink_put_call
    \/ CallerReturn
    \/ ChunkDataSource_poll_return
    \/ apply_filter_return

Spec == Init /\ [][Next]_vars

\* one call of apply_filter on its own: a FIRFilter between a ChunkDataSource
\* and a DataSink
apply_filter_Init == Init /\ driver = "apply_filter"

\* the loop "while not source.finished(): source.poll()" and the return
apply_filter_Next ==
    \/ ChunkDataSource_poll
    \/ FIRFilter_put
    \/ DataSink_put_call
    \/ ChunkDataSource_poll_return
    \/ apply_filter_return

\* the call runs to completion in the calling thread
LiveSpec == apply_filter_Init /\ [][apply_filter_Next]_vars /\ WF_vars(apply_filter_Next)

\* ================================================================= claims
\* sample j (from 0) of a stream q, zero outside the stream
At(q, j) == IF 0 <= j /\ j < Len(q) THEN q[j + 1] ELSE 0

RECURSIVE TapSum(_, _, _, _)
\* sum over k = 0..kmax of tp[k] * q[j - k], taps and samples counted from 0
TapSum(tp, q, j, kmax) ==
    IF kmax < 0 THEN 0
    ELSE tp[kmax + 1] * At(q, j - kmax) + TapSum(tp, q, j, kmax - 1)

\* the ideal causal FIR output at index j (from 0) of stream q
FirIdeal(tp, q, j) == TapSum(tp, q, j, Len(tp) - 1)

Supported == mode \in {MODE_CONVOLVE, MODE_FFT_CONVOLVE}

\* C1: a FIRFilter with at least two taps, fed any partition of a stream into
\* non-empty batches, yields as many samples as each batch holds, and the
\* concatenated output is the causal convolution of the stream with the taps
\* (sample j is the sum over k of taps[k] * x[j-k], zero before the stream).
C1_FirBatchIndependent ==
    (kind = "FIRFilter" /\ Len(taps) >= 2 /\ nEmpty = 0 /\ Supported) =>
        /\ \A j \in 1..Len(sink) : sink[j] = FirIdeal(taps, data, j - 1)
        /\ pc = "sink" => Len(out) = Len(x)
        /\ pc \in {"ret", "idle"} => Len(sink) = fed

C1_Witness ==
    /\ kind = "FIRFilter" /\ driver = "caller" /\ Len(taps) = 3 /\ nEmpty = 0
    /\ pc = "ret" /\ Len(x) = 1 /\ Len(sink) = 3
    /\ sink[3] = taps[1] + taps[2] + taps[3]

\* C5: a Delay with delay d >= 1 yields, over any partition of the stream, d
\* zeros followed by the stream, truncated to the number of samples fed, and
\* each batch yields as many samples as it holds.
C5_DelayShifts ==
    (kind = "Delay" /\ delay >= 1) =>
        /\ \A j \in 1..Len(sink) : sink[j] = At(data, j - 1 - delay)
        /\ pc = "sink" => Len(out) = Len(x)
        /\ pc \in {"ret", "idle"} => Len(sink) = fed

C5_Witness ==
    /\ kind = "Delay" /\ delay = 2 /\ pc = "ret" /\ Len(x) = 1
    /\ Len(sink) = 3 /\ sink[3] = 1

\* C6: after RegroupBatches.put(batch), the concatenation of what the consumer
\* received during that put is the batch itself (an empty batch included).
C6_RegroupTransparent ==
    (kind = "RegroupBatches" /\ pc = "ret") => recv = x

C6_Witness ==
    /\ kind = "RegroupBatches" /\ pc = "ret"
    /\ Len(x) > out_batch_size /\ nSink >= 2 /\ \E j \in 1..Len(x) : x[j] # 0

\* C2: a fresh Downsampler of ratio r, fed any partition of a stream, yields
\* exactly the samples at the global indices 0, r, 2r, ... below the number
\* of samples fed.
C2_DownsamplerKeepsEveryRth ==
    (kind = "Downsampler" /\ pc \in {"ret", "idle"}) =>
        sink = [k \in 1..ArangeLen(fed, ratio) |-> data[(k - 1) * ratio + 1]]

\* C3: the array apply_filter returns has exactly len(signal) samples, for any
\* FIR filter and any signal length.
C3_ApplyFilterLength ==
    (driver = "apply_filter" /\ pc = "done") => Len(result) = Len(signal)

\* C4: for a FIR filter with at least two taps, apply_filter returns, for every
\* chunk size, len(signal) samples of which sample i is the ideal causal
\* filter output at index i + filter.delay.
C4_ApplyFilterIdeal ==
    (driver = "apply_filter" /\ pc = "done" /\ Len(taps) >= 2) =>
        /\ Len(result) = Len(signal)
        /\ \A i \in 0..(Len(signal) - 1) :
               result[i + 1] = FirIdeal(taps, signal, i + FIRFilter_delay(taps))

C4_Witness ==
    /\ driver = "apply_filter" /\ pc = "done" /\ Len(taps) = 3
    /\ batch_size = 2 /\ Len(signal) = 3
    /\ signal = << 1, 1, 1 >> /\ result[3] = taps[2] + taps[3]

\* C7: a Hilbert block with at least three effective taps, fed non-empty
\* batches: both branches yield as many samples as the batch holds; at output
\* index i the real part is x[i - delay] (zero before the stream) and the
\* imaginary part is the FIR output at i, whose centre tap multiplies that
\* same sample.
C7_HilbertAligned ==
    (kind = "Hilbert" /\ Len(taps) >= 3 /\ nEmpty = 0) =>
        /\ pc = "put" =>
              /\ Len(Delay_batch(buffer, delay, x).y) = Len(x)
              /\ Len(FIRFilter_batch(buffer_x, taps, mode, x).y) = Len(x)
        /\ pc = "sink" => Len(out) = Len(x)
        /\ pc \in {"ret", "idle"} => Len(sink) = fed
        /\ LET c == Len(taps) \div 2
           IN  \A j \in 1..Len(sink) :
                   /\ sink[j][1] = At(data, j - 1 - c)
                   /\ sink[j][2] = taps[c + 1] * sink[j][1]
                                   + TapSum(taps, data, j - 1, c - 1)
                                   + (TapSum(taps, data, j - 1, Len(taps) - 1)
                                      - TapSum(taps, data, j - 1, c))

C7_Witness ==
    /\ kind = "Hilbert" /\ Len(taps) = 3 /\ nEmpty = 0 /\ driver = "caller"
    /\ pc = "ret" /\ Len(x) = 1 /\ Len(sink) = 3
    /\ sink[2] = << 1, taps[1] + taps[2] >> /\ sink[3] = << 1, taps[1] + taps[2] + taps[3] >>

\* C8: a MixLocalOscillator fed non-empty batches: in sample periods, t is the
\* number of samples received so far, each batch of length L advances it by
\* L, and sample n of the stream is multiplied by the carrier at n.
C8_MixerPhaseContinuous ==
    (kind = "MixLocalOscillator" /\ nEmpty = 0) =>
        /\ pc = "put" => t = fed - Len(x)
        /\ pc \in {"sink", "ret", "idle"} => t = fed
        /\ pc = "sink" => Len(out) = Len(x)
        /\ \A j \in 1..Len(sink) : sink[j] = data[j] * Carrier(j - 1)

C8_Witness ==
    /\ kind = "MixLocalOscillator" /\ nEmpty = 0 /\ pc = "ret"
    /\ Len(x) = 2 /\ t = 4 /\ sink = << 0, 1, 0, -1 >>

IsImpulse(q, k) == \A j \in 1..Len(q) : q[j] = (IF j = k + 1 THEN 1 ELSE 0)

\* C9: a FIRFilter with ntaps taps declares delay ntaps // 2, and an impulse at
\* index k, under any batching, yields taps[j] at index k + j for
\* 0 <= j < ntaps and zero elsewhere.
C9_ImpulseResponse ==
    (kind = "FIRFilter" /\ nEmpty = 0 /\ Supported) =>
        /\ FIRFilter_delay(taps) = Len(taps) \div 2
        /\ \A k \in 0..(Len(data) - 1) :
              IsImpulse(data, k) =>
                  /\ pc \in {"ret", "idle"} => Len(sink) = fed
                  /\ \A j \in 1..Len(sink) :
                        sink[j] = IF k <= j - 1 /\ j - 1 - k < Len(taps)
                                  THEN taps[j - k] ELSE 0

\* what a step of a polled chain may do
C10_Step ==
    driver \in {"chain", "apply_filter"} =>
        /\ src_i' # src_i =>
              /\ pc = "ret" /\ nBatch >= 1 /\ nSink = nBatch
              /\ kind # "RegroupBatches" => (nBatch = 1 /\ recv = out)
              /\ kind = "RegroupBatches" => recv = x
        /\ (pc' = "put" /\ pc # "put") =>
              (pc = "idle" /\ nBatch = 0 /\ nSink = 0 /\ src_i = fed)
        /\ nBatch' = nBatch + 1 => nSink = nBatch
        /\ nSink' = nSink + 1 => nBatch = nSink + 1

\* C10: under ChunkDataSource.poll the source advances its read position only
\* after the block's batch step and the sink's put for the current batch are
\* complete; a block is handed a batch only when the chain is idle and the
\* source has advanced past every earlier batch; a result is put into the
\* sink only after its batch step; and a RegroupBatches forwards a chunk only
\* after the sink's put of the previous chunk.
C10_InOrder == [][C10_Step]_vars

C10_Witness ==
    /\ driver = "chain" /\ kind = "RegroupBatches" /\ pc = "idle"
    /\ src_i >= 2 * batch_size /\ batch_size > out_batch_size /\ Len(sink) >= 4

\* what a call of FIRFilter.batch in an unsupported mode may do
C13_Step ==
    (pc = "put" /\ pc' # "put" /\ kind = "FIRFilter" /\ consumer # "None"
       /\ ~Supported) =>
        /\ err' = "ValueError" /\ pc' = "raised"
        /\ out' = << >> /\ sink' = sink /\ nBatch' = nBatch /\ recv' = recv

\* C13: FIRFilter.batch called in a mode that is neither MODE_CONVOLVE nor
\* MODE_FFT_CONVOLVE raises ValueError and hands on no output; it never falls
\* back to a supported mode.
C13_UnsupportedModeFails == [][C13_Step]_vars

C13_Witness ==
    /\ kind = "FIRFilter" /\ ~Supported /\ pc = "raised" /\ err = "ValueError"
    /\ Len(x) = 2 /\ sink = << >>

\* C15: after Downsampler.batch on a batch of length L > waitfor, the new
\* waitfor is r - ((L - waitfor) mod r), waitfor being the value before the
\* call.
C15_WaitforUpdate ==
    (kind = "Downsampler" /\ pc = "sink" /\ Len(x) > wf0) =>
        waitfor = ratio - ((Len(x) - wf0) % ratio)

\* C16: a fresh Downsampler fed one sample per batch yields exactly the
\* samples at the global indices 0, r, 2r, ...: one sample on every r-th call
\* and an empty output on every other call, for any ratio r >= 1.
C16_OneSampleBatches ==
    (kind = "Downsampler" /\ driver = "chain" /\ batch_size = 1) =>
        /\ pc = "sink" => Len(out) = (IF (fed - 1) % ratio = 0 THEN 1 ELSE 0)
        /\ pc \in {"ret", "idle"} =>
              sink = [k \in 1..ArangeLen(fed, ratio) |-> data[(k - 1) * ratio + 1]]

\* what a batch step of a Downsampler may do
C17_Step ==
    /\ ratio' = ratio
    /\ (kind = "Downsampler" /\ pc = "put" /\ pc' = "sink") =>
          IF Len(x) <= waitfor
          THEN out' = << >> /\ waitfor' = waitfor - Len(x)
          ELSE /\ Len(out') = ArangeLen(Len(x) - waitfor, ratio)
               /\ \A k \in 1..Len(out') :
                     /\ waitfor + (k - 1) * ratio < Len(x)
                     /\ out'[k] = x[waitfor + (k - 1) * ratio + 1]
               /\ waitfor + Len(out') * ratio >= Len(x)

\* C17: Downsampler.batch on a batch of length L <= waitfor returns an empty
\* output, decreases waitfor by exactly L and leaves ratio unchanged; on a
\* batch of length L > waitfor it returns exactly the samples at the local
\* positions waitfor, waitfor + r, waitfor + 2r, ... below L.
C17_DownsamplerBatch == [][C17_Step]_vars

C17_Witness ==
    /\ kind = "Downsampler" /\ pc = "sink" /\ ratio = 2 /\ wf0 = 1
    /\ Len(x) = 3 /\ x = << 0, 1, 0 >> /\ out = << 1 >>

\* C18: a Delay with any delay d >= 0 returns from every batch call as many
\* samples as it was given, and its buffer holds exactly d samples.
C18_DelayKeepsLength ==
    kind = "Delay" =>
        /\ pc = "sink" => Len(out) = Len(x)
        /\ Len(buffer) = delay

\* C19: a FIRFilter with any tap count ntaps >= 1 keeps, after any sequence of
\* batch calls, a buffer of exactly ntaps - 1 samples: the last ntaps - 1
\* samples of the initial zeros followed by the stream seen so far.
C19_FirBufferBounded ==
    (kind = "FIRFilter" /\ Supported /\ err = "none") =>
        LET seen == IF pc = "put" THEN fed - Len(x) ELSE fed
            full == zeros(Len(taps) - 1) \o SubSeq(data, 1, seen)
        IN  /\ Len(buffer_x) = Len(taps) - 1
            /\ buffer_x = SubSeq(full, Len(full) - (Len(taps) - 1) + 1, Len(full))

\* C20: RegroupBatches.put of a batch of length L forwards exactly
\* ceil(L / s) chunks, each a consecutive slice of at most s samples, none
\* empty, all but possibly the last of exactly s samples, in stream order.
C20_RegroupChunks ==
    kind = "RegroupBatches" =>
        /\ pc = "ret" => nSink = ArangeLen(Len(x), out_batch_size)
        /\ pc = "sink" =>
              /\ out = SubSeq(x, (nBatch - 1) * out_batch_size + 1,
                              Min(nBatch * out_batch_size, Len(x)))
              /\ Len(out) >= 1 /\ Len(out) <= out_batch_size
              /\ nBatch < ArangeLen(Len(x), out_batch_size) => Len(out) = out_batch_size
              /\ nSink = nBatch - 1

C20_Witness ==
    /\ kind = "RegroupBatches" /\ pc = "sink" /\ out_batch_size = 2
    /\ Len(x) = 3 /\ nBatch = 2 /\ out = << 1 >>

\* what put on a block without a consumer may do
C12_Step ==
    (pc = "put" /\ pc' # "put" /\ consumer = "None") =>
        /\ err' = "AssertionError" /\ pc' = "raised"
        /\ UNCHANGED << buffer, buffer_x, waitfor, t, s, sink, out, recv, nBatch, nSink >>

\* C12: put on a FilterBlock subclass or a RegroupBatches without a connected
\* consumer fails with an assertion error before the batch step runs: the
\* block's buffer and phase state are unchanged and nothing is forwarded.
C12_UnconnectedPutFails == [][C12_Step]_vars

C12_Witness ==
    /\ consumer = "None" /\ pc = "raised" /\ err = "AssertionError"
    /\ kind = "Delay" /\ delay = 2 /\ x = << 1, 1 >> /\ buffer = << 0, 0 >>

\* the output of a Hilbert block fed non-empty batches: the delayed stream
\* paired with the FIR output
HilbertIdeal ==
    \A j \in 1..Len(sink) :
        sink[j] = << At(data, j - 1 - FIRFilter_delay(taps)), FirIdeal(taps, data, j - 1) >>

\* what Hilbert.add and Hilbert.get may do, and what follows them
C14_Step ==
    /\ caught' # caught =>
          /\ caught' = "RuntimeError"
          /\ UNCHANGED << buffer, buffer_x, delay, taps, mode, sink, out, pc, err, fed >>
    /\ (kind = "Hilbert" /\ caught = "RuntimeError" /\ Len(taps) >= 3 /\ nEmpty = 0) =>
          (HilbertIdeal' /\ (pc' \in {"ret", "idle"} => Len(sink') = fed'))

RECURSIVE FanoutOf(_, _)
FanoutOf(ps, cs) ==
    IF ps = << >> THEN << >>
    ELSE FanoutOf(SubSeq(ps, 1, Len(ps) - 1), cs)
         \o [k \in 1..Len(cs) |-> << cs[k], ps[Len(ps)] >>]

\* C11: every put(x) of a Splitter delivers x exactly once to every connected
\* consumer, in the order of the connect calls, and over a sequence of puts
\* every consumer receives the batches in the order they were put.
C11_SplitterFansOut ==
    kind = "Splitter" =>
        LET inPut == pc \in {"put", "split"}
            done  == IF inPut THEN SubSeq(puts, 1, Len(puts) - 1) ELSE puts
        IN  /\ inPut => (puts # << >> /\ x = puts[Len(puts)])
            /\ deliv = FanoutOf(done, consumers)
                        \o [k \in 1..(IF pc = "split" THEN ci ELSE 0) |-> << consumers[k], x >>]
            /\ \A c \in 1..Len(consumers) :
                   /\ consumers[c] = c
                   /\ ~inPut => sinks[c] = SubSeq(data, 1, fed)

C11_Witness ==
    /\ kind = "Splitter" /\ pc = "ret" /\ Len(consumers) = 2
    /\ puts = << << 1 >>, << 0, 1 >> >>
    /\ deliv = << << 1, << 1 >> >>, << 2, << 1 >> >>, << 1, << 0, 1 >> >>, << 2, << 0, 1 >> >> >>
    /\ sinks[1] = << 1, 0, 1 >> /\ sinks[2] = << 1, 0, 1 >>

\* the concatenation of a sequence of batches
RECURSIVE Flatten(_)
Flatten(bs) == IF bs = << >> THEN << >> ELSE Head(bs) \o Flatten(Tail(bs))

\* C21: the batches a ChunkDataSource puts, poll after poll until finished()
\* holds, are the consecutive slices data[0:b], data[b:2b], ...: none is empty,
\* each holds b samples except possibly the last, and once finished() holds
\* their concatenation is the data.
C21_ConsecutiveSlices ==
    driver \in {"chain", "apply_filter"} =>
        /\ \A k \in 1..Len(polls) :
               /\ polls[k] = SubSeq(data, (k - 1) * batch_size + 1,
                                   Min(k * batch_size, Len(data)))
               /\ polls[k] # << >>
               /\ Len(polls[k]) = batch_size
                  \/ (k = Len(polls) /\ k * batch_size > Len(data))
        /\ ChunkDataSource_finished => Flatten(polls) = data

C21_Witness ==
    /\ driver = "chain" /\ pc = "idle" /\ ChunkDataSource_finished
    /\ batch_size = 2 /\ data = << 1, 0, 1 >>
    /\ polls = << << 1, 0 >>, << 1 >> >>

CeilDiv(a, b) == (a + b - 1) \div b

\* the polls of apply_filter counted against the padded length
C22_Counts ==
    (driver = "apply_filter" /\ Supported) =>
        LET N == Len(signal) + FIRFilter_delay(taps)
        IN  /\ Len(polls) <= CeilDiv(N, batch_size)
            /\ (Len(polls) > 0 /\ ChunkDataSource_finished) =>
                   Len(polls) = CeilDiv(N, batch_size)
            /\ (Len(polls) > 0 /\ pc = "idle" /\ Len(polls) = CeilDiv(N, batch_size)) =>
                   ChunkDataSource_finished
            /\ pc = "done" => Len(polls) = CeilDiv(N, batch_size)
            /\ N = 0 => polls = << >>

\* once finished() holds it keeps holding and nothing more is polled
C22_Step ==
    (driver = "apply_filter" /\ ChunkDataSource_finished) =>
        (ChunkDataSource_finished' /\ polls' = polls)

\* C22: for a filter in a supported mode the loop of apply_filter terminates:
\* finished() holds after exactly ceil((len(signal) + delay) / b) polls and
\* from then on, an empty padded signal is never polled, and apply_filter
\* returns.
C22_ApplyFilterTerminates ==
    /\ []C22_Counts
    /\ [][C22_Step]_vars
    /\ (driver = "apply_filter" /\ Supported) ~> (pc = "done")

C22_Witness ==
    /\ driver = "apply_filter" /\ Supported /\ pc = "done"
    /\ Len(signal) = 2 /\ FIRFilter_delay(taps) = 1 /\ batch_size = 2
    /\ Len(polls) = 2 /\ Len(polls[2]) = 1

\* C23: in a chain source -> Downsampler -> MixLocalOscillator -> sink no put
\* fails for any ratio and any batching, and the mixer's offset t, in sample
\* periods, is the number of samples it has received and handed on, so an
\* empty batch leaves it unchanged.
C23_ChainNeverFails ==
    kind = "Downsampler>MixLocalOscillator" =>
        /\ err = "none"
        /\ pc \in {"sink", "ret", "idle"} =>
               t = Len(sink) + (IF pc = "sink" THEN Len(out) ELSE 0)

\* the counter of a Downsampler stays in 0..ratio
C24_InRange ==
    kind \in {"Downsampler", "Downsampler>MixLocalOscillator"} =>
        (0 <= waitfor /\ waitfor <= ratio)

\* C24: after any sequence of batches of any lengths, empty ones included,
\* a Downsampler's counter satisfies 0 <= waitfor <= ratio, and no step
\* changes ratio.
C24_WaitforInRange == []C24_InRange /\ [][ratio' = ratio]_vars

C24_Witness ==
    /\ kind = "Downsampler" /\ pc = "idle" /\ ratio = 3 /\ waitfor = ratio
    /\ fed = 3 /\ nEmpty = 1 /\ Len(sink) = 1

\* what a batch call that fails on an unsupported mode may do to the buffer
C25_Step ==
    (kind = "FIRFilter" /\ ~Supported /\ pc = "put" /\ pc' = "raised"
       /\ err' = "ValueError") =>
        buffer_x' = buffer_x

\* C25: a FIRFilter.batch call that fails because the mode is unsupported
\* leaves the sample buffer as it was before the call.
C25_FailedBatchKeepsBuffer == [][C25_Step]_vars

\* C26: for a ChunkDataSource over non-empty data, polled until finished()
\* holds, the read position _i never exceeds len(data), progress() lies
\* between 0 and 100, and it is 100 exactly when finished() holds.
C26_ProgressInRange ==
    (driver \in {"chain", "apply_filter"} /\ data # << >>) =>
        LET p == ChunkDataSource_progress(src_i, data)
        IN  /\ src_i <= Len(data)
            /\ 0 <= p.num /\ p.num <= 100 * p.den
            /\ (p.num = 100 * p.den) <=> ChunkDataSource_finished

====
